---- MODULE Spec2Model ----
(***************************************************************************)
(* real_parent: symlink-aware Path::parent / clean / root detection.       *)
(*                                                                         *)
(* A path is the sequence of its components as std::path writes them:      *)
(* "/" is Component::RootDir, "." is CurDir, ".." is ParentDir, any other  *)
(* string is Normal.  The empty sequence is the empty path.  A raw path    *)
(* (an input, a symlink target) may hold "." anywhere; Components gives    *)
(* the sequence Path::components() yields for it.                          *)
(*                                                                         *)
(* A filesystem is a function from nodes to entries.  A node is the        *)
(* sequence of names leading to it from the root directory, << >>.         *)
(***************************************************************************)
EXTENDS Integers, Sequences, FiniteSets, TLC

DOT == "."
DOTDOT == ".."
ROOT == "/"

\* ---------------------------------------------------------------- bounds
\* most symlinks the filesystem follows while resolving one path (ELOOP)
SymloopMax == 5
\* longest path, in components, the filesystem accepts (ENAMETOOLONG)
PathMax == 16
\* most further real_parent applications of one repeated ascent
MaxAscents == 4
\* most changes another process makes to the filesystem during one call
MaxChanges == 2

\* ---------------------------------------------------------------- std::path
Last(s) == s[Len(s)]
Front(s) == SubSeq(s, 1, Len(s) - 1)

IsNormal(c) == c \notin {ROOT, DOT, DOTDOT}

\* Path::components(): "." survives only as the first component
Components(p) ==
    IF p = << >> THEN << >>
    ELSE <<Head(p)>> \o SelectSeq(Tail(p), LAMBDA c : c # DOT)

\* Path::file_name() is Some
HasFileName(p) == p # << >> /\ IsNormal(Last(p))

\* Path::parent() is Some
HasParent(p) == p # << >> /\ Last(p) # ROOT

\* Path::parent().unwrap()
PathParent(p) == Front(p)

\* Path::join(DOTDOT)
JoinDotDot(p) == Append(p, DOTDOT)

\* as EmptyToDot, the empty path let through
EmptyKept(p) == p

\* empty_to_dot
EmptyToDot(p) == IF p = << >> THEN <<DOT>> ELSE p

\* ---------------------------------------------------------------- filesystem
Dir(n) == n :> [kind |-> "dir", target |-> << >>]
File(n) == n :> [kind |-> "file", target |-> << >>]
Symlink(n, t) == n :> [kind |-> "symlink", target |-> t]

OkNode(n) == [ok |-> TRUE, node |-> n, err |-> ""]
Errno(e) == [ok |-> FALSE, node |-> << >>, err |-> e]

\* Path resolution as the operating system does it: component by component
\* from cur, following every symlink met except (when follow is FALSE) one
\* that is the final component.
RECURSIVE Walk(_, _, _, _, _)
Walk(fs, cur, rest, follow, n) ==
    IF rest = << >> THEN OkNode(cur)
    ELSE IF fs[cur].kind # "dir" THEN Errno("ENOTDIR")
    ELSE LET c == Head(rest)
             t == Tail(rest)
         IN  IF c = ROOT THEN Walk(fs, << >>, t, follow, n)
             ELSE IF c = DOT THEN Walk(fs, cur, t, follow, n)
             ELSE IF c = DOTDOT
                  THEN Walk(fs, IF cur = << >> THEN << >> ELSE Front(cur), t, follow, n)
             ELSE LET child == Append(cur, c)
                  IN  IF child \notin DOMAIN fs THEN Errno("ENOENT")
                      ELSE IF fs[child].kind = "symlink" /\ (t # << >> \/ follow)
                           THEN IF n >= SymloopMax THEN Errno("ELOOP")
                                ELSE IF fs[child].target = << >> THEN Errno("ENOENT")
                                ELSE Walk(fs, cur, fs[child].target \o t, follow, n + 1)
                      ELSE Walk(fs, child, t, follow, n)

Resolve(fs, cwd, p, follow) ==
    IF p = << >> THEN Errno("ENOENT")
    ELSE IF Len(p) > PathMax THEN Errno("ENAMETOOLONG")
    ELSE Walk(fs, cwd, p, follow, 0)

\* Path::symlink_metadata(): the kind of the entry, a final symlink not followed
SymlinkMetadata(fs, cwd, p) ==
    LET r == Resolve(fs, cwd, p, FALSE)
    IN  IF r.ok THEN [ok |-> TRUE, kind |-> fs[r.node].kind, err |-> ""]
        ELSE [ok |-> FALSE, kind |-> "", err |-> r.err]

\* Path::read_link()
ReadLinkOf(fs, cwd, p) ==
    LET r == Resolve(fs, cwd, p, FALSE)
    IN  IF ~r.ok THEN [ok |-> FALSE, target |-> << >>, err |-> r.err]
        ELSE IF fs[r.node].kind # "symlink"
             THEN [ok |-> FALSE, target |-> << >>, err |-> "EINVAL"]
        ELSE [ok |-> TRUE, target |-> fs[r.node].target, err |-> ""]

\* Path::canonicalize(): an absolute path without ".", ".." or symlinks
Canonicalize(fs, cwd, p) ==
    LET r == Resolve(fs, cwd, p, TRUE)
    IN  IF r.ok THEN [ok |-> TRUE, path |-> <<ROOT>> \o r.node, err |-> ""]
        ELSE [ok |-> FALSE, path |-> << >>, err |-> r.err]

\* ---------------------------------------------------------------- is_real_root
\* as IsRealRoot, the first component of the canonical path looked at
IsRealRootFirst(fs, cwd, p) ==
    LET path == IF p = << >> THEN <<DOT>> ELSE p
        c == Canonicalize(fs, cwd, path)
    IN  IF ~c.ok THEN [tag |-> "IO", path |-> << >>, err |-> c.err]
        ELSE IF Head(c.path) = ROOT THEN [tag |-> "True", path |-> << >>, err |-> ""]
        ELSE [tag |-> "False", path |-> << >>, err |-> ""]

\* is_real_root
IsRealRoot(fs, cwd, p) ==
    LET path == IF p = << >> THEN <<DOT>> ELSE p
        c == Canonicalize(fs, cwd, path)
    IN  IF ~c.ok THEN [tag |-> "IO", path |-> << >>, err |-> c.err]
        ELSE IF c.path = << >> THEN [tag |-> "Panic", path |-> << >>, err |-> "unwrap"]
        ELSE IF Last(c.path) = ROOT THEN [tag |-> "True", path |-> << >>, err |-> ""]
        ELSE [tag |-> "False", path |-> << >>, err |-> ""]

\* ---------------------------------------------------------------- RealPath
\* as Probe, every ancestor of the path looked at on the way
ProbeAncestors(ps, p) == ps \cup {SubSeq(p, 1, k) : k \in 1..Len(p)}

\* a path handed to the filesystem: symlink_metadata, read_link
Probe(ps, p) == ps \cup {p}

\* as AlreadyVisited, the check left out
NeverVisited(vis, p) == FALSE

\* symlink_parent: the path was dereferenced before in this call
AlreadyVisited(vis, p) == p \in vis

\* symlink_parent: symlinks_visited.insert
MarkVisited(vis, p) == vis \cup {p}

\* as DirParent, folding a trailing `..` away
DirParentFolds(path) ==
    IF HasFileName(path) THEN PathParent(path)
    ELSE IF path = <<DOT>> THEN <<DOTDOT>>
    ELSE IF path # << >> /\ Last(path) = DOTDOT THEN PathParent(path)
    ELSE IF path = << >> THEN JoinDotDot(path)
    ELSE path

\* as DirParent, the root treated like a path that ends in `..`
DirParentRootAscends(path) ==
    IF HasFileName(path) THEN PathParent(path)
    ELSE IF path = <<DOT>> THEN <<DOTDOT>>
    ELSE JoinDotDot(path)

\* as DirParent, an empty parent already written `.`
DirParentDotted(path) ==
    IF HasFileName(path) THEN EmptyToDot(PathParent(path))
    ELSE IF path = <<DOT>> THEN <<DOTDOT>>
    ELSE IF path = << >> \/ Last(path) = DOTDOT THEN JoinDotDot(path)
    ELSE path

\* dir_parent
DirParent(path) ==
    IF HasFileName(path) THEN PathParent(path)
    ELSE IF path = <<DOT>> THEN <<DOTDOT>>
    ELSE IF path = << >> \/ Last(path) = DOTDOT THEN JoinDotDot(path)
    ELSE path

\* path.parent().unwrap() panics: symlink_parent and file_parent unwrap
\* at once, dir_parent once file_name() is Some
ParentUnwrapPanics(path) == ~HasParent(path)
DirParentPanics(path) == HasFileName(path) /\ ~HasParent(path)

\* as SymlinkDir, the symlink taken for its own directory
SymlinkDirSelf(path) == path

\* symlink_parent: symlink_dir, the directory that contains the symlink
SymlinkDir(path) == PathParent(path)

\* as FileParent, the file taken for its own parent
FileParentSelf(path) == path

\* file_parent
FileParent(path) == PathParent(path)

\* A pending call of parent or join.  For parent, path is its argument and
\* pc is where it stands: "start", "readlink" (classified as a symlink and
\* marked visited), "joining" (waiting for join to resolve the target),
\* "recursing" (waiting for the parent of the resolved target).  For join,
\* path is `resolving`, rest the components still to walk, and pc is "loop"
\* or "await" (waiting for the parent of `resolving`).
Frame(f, pc, path, rest) == [fn |-> f, pc |-> pc, path |-> path, rest |-> rest]

\* as JoinInit, a relative path joined to the current directory
JoinInitFromCwd(origin, other) ==
    LET comps == Components(other)
        root == SelectSeq(comps, LAMBDA c : c = ROOT)
        relative == SelectSeq(comps, LAMBDA c : c # ROOT)
    IN  Frame("join", "loop", root, relative)

\* as JoinInit, the root left among the components to walk
JoinInitUnsplit(origin, other) == Frame("join", "loop", origin, Components(other))

\* as JoinInit, an absolute path walked from origin like a relative one
JoinInitRootDropped(origin, other) ==
    LET comps == Components(other)
        relative == SelectSeq(comps, LAMBDA c : c # ROOT)
    IN  Frame("join", "loop", origin, relative)

\* join: split other into root and relative, seed `resolving`
JoinInit(origin, other) ==
    LET comps == Components(other)
        root == SelectSeq(comps, LAMBDA c : c = ROOT)
        relative == SelectSeq(comps, LAMBDA c : c # ROOT)
    IN  Frame("join", "loop", IF root = << >> THEN origin ELSE root, relative)

VARIABLES sc, fs, cwd, phase, op, input, start, applications,
          stack, visited, result,
          internal,   \* the path the call computed, before empty_to_dot
          probes,     \* the paths the call gave to the filesystem so far
          seen        \* the filesystems there have been since the call began

vars == <<sc, fs, cwd, phase, op, input, start, applications,
          stack, visited, result, internal, probes, seen>>

NoResult == [tag |-> "none", path |-> << >>, err |-> ""]
OkResult(p) == [tag |-> "Ok", path |-> p, err |-> ""]
IOError(p, e) == [tag |-> "IO", path |-> p, err |-> e]
CycleError(p) == [tag |-> "Cycle", path |-> p, err |-> ""]
\* the thread panics: an unwrap of None, or the panic! of join
Panicked(p, msg) == [tag |-> "Panic", path |-> p, err |-> msg]

Top == stack[Len(stack)]
Running == phase = "running" /\ stack # << >>

\* parent() returns v: every caller waiting in symlink_parent returns it
\* too, until a join takes it as its new `resolving` or the call is over.
RECURSIVE Unwind(_, _)
Unwind(stk, v) ==
    IF stk = << >> THEN << >>
    ELSE IF Last(stk).fn = "parent" THEN Unwind(Front(stk), v)
    ELSE Append(Front(stk), Frame("join", "loop", v, Last(stk).rest))

\* the value v leaves the frame on top of the stack
Return(v) ==
    LET stk == Unwind(Front(stack), v)
    IN  /\ stack' = stk
        /\ IF stk = << >>
           THEN phase' = "done" /\ internal' = v /\ result' = OkResult(EmptyToDot(v))
           ELSE UNCHANGED <<phase, internal, result>>

\* an Err leaves through every caller unchanged
Fail(e) ==
    /\ stack' = << >>
    /\ phase' = "done"
    /\ result' = e
    /\ UNCHANGED internal

\* ---------------------------------------------------------------- link farms
\* Every farm lives in the directory /T, as the tests' farms live in a tempdir.
T(n) == <<"T">> \o n
AbsT(n) == <<ROOT, "T">> \o n
FarmBase == Dir(<< >>) @@ Dir(T(<< >>))

\* test_real_parent_files_directories, test_real_parent_rel_symlinks,
\* test_real_clean_rel_symlinks
FarmRel ==
    FarmBase @@ File(T(<<"x1">>)) @@ Dir(T(<<"A">>)) @@ Dir(T(<<"A", "B">>))
    @@ Dir(T(<<"A", "B", "C">>)) @@ File(T(<<"A", "a1">>))
    @@ File(T(<<"A", "B", "b1">>)) @@ File(T(<<"A", "B", "C", "c1">>))
    @@ Symlink(T(<<"_x1">>), <<"x1">>)
    @@ Symlink(T(<<"_B">>), <<"A", "B">>)
    @@ Symlink(T(<<"A", "_dot">>), <<DOTDOT>>)
    @@ Symlink(T(<<"A", "B", "_A">>), <<DOTDOT>>)
    @@ Symlink(T(<<"A", "B", "_B">>), <<DOT>>)
    @@ Symlink(T(<<"A", "B", "_b1">>), <<"b1">>)
    @@ Symlink(T(<<"A", "B", "_a1">>), <<DOTDOT, "a1">>)
    @@ Symlink(T(<<"A", "B", "C", "_a1">>), <<DOTDOT, DOTDOT, "a1">>)
    @@ Symlink(T(<<"A", "B", "C", "_b1">>), <<DOT, DOTDOT, DOT, "b1">>)
    @@ Symlink(T(<<"A", "B", "C", "_A">>), <<DOTDOT, DOTDOT, DOTDOT, "A">>)
    @@ Symlink(T(<<"A", "B", "C", "_B">>), <<DOT, DOTDOT>>)

\* test_real_parent_rel_indirect_symlinks
FarmIndirect ==
    FarmBase @@ Dir(T(<<"A">>)) @@ Dir(T(<<"A", "B">>)) @@ Dir(T(<<"A", "B", "C">>))
    @@ File(T(<<"A", "B", "b1">>)) @@ File(T(<<"A", "B", "C", "c1">>))
    @@ Symlink(T(<<"_B">>), <<"A", "B">>)
    @@ Symlink(T(<<"A", "B", "C", "_b">>), <<DOTDOT, DOTDOT, DOTDOT, "_B", "b1">>)
    @@ Symlink(T(<<"__b">>), <<"A", "B", "C", "_b">>)
    @@ Symlink(T(<<"_c">>), <<"A", "B", "C", "c1">>)
    @@ Symlink(T(<<"A", "B", "__c">>), <<DOTDOT, DOTDOT, "_c">>)

\* test_real_parent_abs_symlinks, test_is_real_root_via_symlinks_not_windows
FarmAbs ==
    FarmBase @@ Dir(T(<<"A">>)) @@ Dir(T(<<"A", "B">>)) @@ Dir(T(<<"A", "C">>))
    @@ File(T(<<"A", "B", "b1">>)) @@ File(T(<<"A", "a1">>))
    @@ Symlink(T(<<"A", "B", "=b1">>), AbsT(<<"A", "B", "b1">>))
    @@ Symlink(T(<<"A", "B", "=a1">>), AbsT(<<"A", "a1">>))
    @@ Symlink(T(<<"A", "B", "=C">>), AbsT(<<"A", "C">>))
    @@ Symlink(T(<<"_r1">>), <<ROOT>>)
    @@ Symlink(T(<<"A", "_r2">>), <<ROOT>>)
    @@ Symlink(T(<<"A", "_r1a">>), <<DOTDOT, "_r1">>)
    @@ Symlink(T(<<"A", "_r2a">>), <<"_r2">>)

\* test_real_parent_symlink_cycle_error
FarmCycle ==
    FarmBase @@ Dir(T(<<"A">>)) @@ Dir(T(<<"A", "B">>)) @@ Dir(T(<<"A", "B", "C">>))
    @@ Symlink(T(<<"A", "_a1">>), <<"_a2">>)
    @@ Symlink(T(<<"A", "_a2">>), <<"_a1">>)
    @@ Symlink(T(<<"A", "B", "_b1">>), <<DOTDOT, "_b2">>)
    @@ Symlink(T(<<"A", "_b2">>), <<"B", "_b3">>)
    @@ Symlink(T(<<"A", "B", "_b3">>), <<"C", "_b4">>)
    @@ Symlink(T(<<"A", "B", "C", "_b4">>), <<DOTDOT, "_b1">>)

\* test_real_parent_io_error
FarmDangling ==
    FarmBase @@ Dir(T(<<"A">>)) @@ Dir(T(<<"A", "B">>)) @@ File(T(<<"A", "B", "b1">>))
    @@ Symlink(T(<<"_a">>), <<"A", "a1">>)
    @@ Symlink(T(<<"_b">>), <<"A", "B", "C", "b1">>)

\* test_real_parent_symlink_cycle_look_alikes
FarmLookAlikes ==
    FarmBase @@ Dir(T(<<"A">>)) @@ Dir(T(<<"A", "A">>)) @@ Dir(T(<<"A", "A", "A">>))
    @@ File(T(<<"A", "A", "A", "a1">>))
    @@ Symlink(T(<<"_a">>), <<"A", "_a">>)
    @@ Symlink(T(<<"A", "_a">>), <<"A", "_a">>)
    @@ Symlink(T(<<"A", "A", "_a">>), <<"A", "a1">>)

\* No loop, but one resolution passes the same symlink twice: S/../S/..,
\* and _u and _v that both point to _w.
FarmRepass ==
    FarmBase @@ Dir(T(<<"A">>)) @@ File(T(<<"A", "a1">>))
    @@ Symlink(T(<<"S">>), <<"A">>)
    @@ Symlink(T(<<"_p">>), <<"S", DOTDOT, "S", DOTDOT, "A", "a1">>)
    @@ Symlink(T(<<"_q">>), <<"S", DOTDOT, "S", DOTDOT, "A", "y1">>)
    @@ Symlink(T(<<"_w">>), <<"A">>)
    @@ Symlink(T(<<"_u">>), <<"_w">>)
    @@ Symlink(T(<<"_v">>), <<"_w">>)

\* Loops that come back to a symlink under a different path each time:
\* through a symlink to a directory (A/_d -> .), and through `..` above
\* the root (/_s -> ../_s).
FarmSpiral ==
    FarmBase @@ Dir(T(<<"A">>))
    @@ Symlink(T(<<"A", "_d">>), <<DOT>>)
    @@ Symlink(T(<<"A", "_s">>), <<"_d", "_s">>)
    @@ Symlink(T(<<"A", "_up">>), <<DOTDOT>>)
    @@ Symlink(T(<<"A", "_t">>), <<"_up", "A", "_t">>)
    @@ Symlink(<<"_s">>, <<DOTDOT, "_s">>)

\* The directory A/B with the file b1 and the symlink _b1 to it, and
\* nothing else.
FarmSibling ==
    FarmBase @@ Dir(T(<<"A">>)) @@ Dir(T(<<"A", "B">>)) @@ File(T(<<"A", "B", "b1">>))
    @@ Symlink(T(<<"A", "B", "_b1">>), <<"b1">>)

\* A farm another process changes while a call runs: S1 and A/S2 lead
\* through directories, L and M to the file x1.
FarmRace ==
    FarmBase @@ Dir(T(<<"A">>)) @@ Dir(T(<<"A", "P">>)) @@ Dir(T(<<"B">>))
    @@ Dir(T(<<"B", "Q">>)) @@ Dir(T(<<"C">>)) @@ Dir(T(<<"C", "R">>))
    @@ File(T(<<"x1">>))
    @@ Symlink(T(<<"S1">>), <<"A", "P">>)
    @@ Symlink(T(<<"A", "S2">>), <<"P">>)
    @@ Symlink(T(<<"B", "S2">>), <<"Q">>)
    @@ Symlink(T(<<"L">>), <<"M">>)
    @@ Symlink(T(<<"M">>), <<"x1">>)

\* what the other process may do to FarmRace: retarget a symlink, or put a
\* file in its place
ChangesRace ==
    {Symlink(T(<<"S1">>), <<"B", "Q">>),
     Symlink(T(<<"A", "S2">>), <<DOTDOT, "C", "R">>),
     Symlink(T(<<"L">>), <<"x1">>),
     Symlink(T(<<"M">>), <<"L">>),
     File(T(<<"L">>))}

\* the paths of the farm's entries, relative to the farm
EntryPaths(f) == {SubSeq(n, 2, Len(n)) : n \in {m \in DOMAIN f : Len(m) >= 2 /\ m[1] = "T"}}

\* the paths tried on a farm: every entry, as it is, with a trailing `.` or
\* `..`, with a leading `.`, and as an absolute path; and the bare paths
FarmInputs(f) ==
    LET e == EntryPaths(f)
    IN  e \cup {p \o <<DOT>> : p \in e} \cup {p \o <<DOTDOT>> : p \in e}
          \cup {<<DOT>> \o p : p \in e} \cup {AbsT(p) : p \in e}
          \cup {<< >>, <<DOT>>, <<DOTDOT>>, <<DOTDOT, DOTDOT>>, <<DOTDOT, DOTDOT, DOTDOT>>,
                <<ROOT>>, <<ROOT, DOTDOT>>, <<DOT, DOTDOT>>, AbsT(<< >>)}

\* further paths of the tests
ExtraRel ==
    {<<"A", DOT, "B", "C">>, <<"A", DOTDOT, "A", "B", "C">>, <<"_B", "b1">>,
     <<"_B", DOTDOT, "x1">>, <<"_B", "_a1">>, <<"_B", "C", "_a1">>,
     <<"A", "B", "_a1", DOTDOT>>, <<"A", "B", "C", "_a1", DOTDOT, "B">>,
     <<"A", "B", "C", "_A", DOTDOT, "A">>, <<"A", "B", "C", "_B", DOTDOT, "B", "C", DOTDOT>>,
     <<"A", "B", "C", "_A", "B">>, <<"_B", DOTDOT, DOTDOT>>, <<"A", "_dot", "A", "B", "_A">>,
     <<"_B", "_B", "_B">>, <<"_B", "_A", "_dot">>, <<"_B", "_A", "x1">>}
ExtraIndirect == {<<"A", "B", "__c", DOTDOT>>, <<"_B", "C", "_b">>}
ExtraAbs == {<<"A", "B", "=C", DOTDOT>>, <<"A", "_r2", "T", "A">>, <<"_r1", DOTDOT>>}
ExtraDangling == {<<"X">>, <<"X", "y1">>, <<"A", "y1">>, <<"A", "B", "b1", "y1">>}
ExtraRepass ==
    {<<"S", DOTDOT, "S", DOTDOT>>, <<"_u", DOTDOT, "_v", DOTDOT>>, <<"S", DOTDOT, "S", "a1">>,
     <<"S", DOTDOT, "_p">>}
ExtraSpiral == {<<"A", "_d", "_s">>, <<"A", "_d", "_d", "_s">>}
ExtraDeep == {<<DOTDOT, DOTDOT>>, <<DOTDOT, "C", DOTDOT, DOTDOT, "B">>,
              <<DOTDOT, "C", DOTDOT, DOTDOT, "B", DOTDOT>>, <<"C", DOTDOT>>, <<"_A">>, <<"_B">>,
              <<"_a1">>, <<DOT>>, << >>, <<DOTDOT>>, <<"c1">>, <<DOTDOT, DOTDOT, DOTDOT, DOTDOT>>}
ExtraRoot == {<< >>, <<DOT>>, <<DOTDOT>>, <<ROOT>>, <<"T">>, <<"T", "A">>, <<"_s">>,
              <<DOTDOT, "_s">>, <<DOTDOT, "T", DOTDOT>>, <<"T", "A", "_up">>}

ExtraRace == {<<"S1", DOTDOT, "S2", DOTDOT>>, <<"S1", DOTDOT>>}

\* changes: the entries another process may write while a call runs
RaceScenario(f, c, i, ch) == [fs |-> f, cwd |-> c, inputs |-> i, changes |-> ch]
Scenario(f, c, i) == RaceScenario(f, c, i, {})

\* A farm, the current directory of the call and the paths tried there
Scenarios ==
    <<Scenario(FarmRel, T(<< >>), FarmInputs(FarmRel) \cup ExtraRel),
      Scenario(FarmIndirect, T(<< >>), FarmInputs(FarmIndirect) \cup ExtraIndirect),
      Scenario(FarmAbs, T(<< >>), FarmInputs(FarmAbs) \cup ExtraAbs),
      Scenario(FarmCycle, T(<< >>), FarmInputs(FarmCycle)),
      Scenario(FarmDangling, T(<< >>), FarmInputs(FarmDangling) \cup ExtraDangling),
      Scenario(FarmLookAlikes, T(<< >>), FarmInputs(FarmLookAlikes)),
      Scenario(FarmRepass, T(<< >>), FarmInputs(FarmRepass) \cup ExtraRepass),
      Scenario(FarmSpiral, T(<< >>), FarmInputs(FarmSpiral) \cup ExtraSpiral),
      Scenario(FarmRel, T(<<"A", "B", "C">>), ExtraDeep),
      Scenario(FarmSpiral, << >>, ExtraRoot),
      Scenario(FarmSibling, T(<< >>), FarmInputs(FarmSibling)),
      RaceScenario(FarmRace, T(<< >>), EntryPaths(FarmRace) \cup ExtraRace, ChangesRace)>>

Init ==
    /\ sc \in 1..Len(Scenarios)
    /\ fs = Scenarios[sc].fs
    /\ cwd = Scenarios[sc].cwd
    /\ phase = "idle"
    /\ op = ""
    /\ input = << >>
    /\ start = << >>
    /\ applications = 0
    /\ stack = << >>
    /\ visited = {}
    /\ result = NoResult
    /\ internal = << >>
    /\ probes = {}
    /\ seen = <<fs>>

\* ---------------------------------------------------------------- entry points
\* real_parent: a fresh RealPath, then parent(self)
RealParentCall(p) ==
    /\ phase = "idle"
    /\ phase' = "running"
    /\ op' = "real_parent"
    /\ input' = p
    /\ start' = p
    /\ stack' = <<Frame("parent", "start", p, << >>)>>
    /\ visited' = {}
    /\ UNCHANGED <<sc, fs, cwd, applications, result, internal>>
    /\ probes' = {}
    /\ seen' = <<fs>>

\* real_clean: a fresh RealPath, then clean(self), which is join("", self)
RealCleanCall(p) ==
    /\ phase = "idle"
    /\ phase' = "running"
    /\ op' = "real_clean"
    /\ input' = p
    /\ start' = p
    /\ stack' = <<JoinInit(<< >>, p)>>
    /\ visited' = {}
    /\ UNCHANGED <<sc, fs, cwd, applications, result, internal>>
    /\ probes' = {}
    /\ seen' = <<fs>>

\* is_real_root
IsRealRootCall(p) ==
    /\ phase = "idle"
    /\ phase' = "done"
    /\ op' = "is_real_root"
    /\ input' = p
    /\ start' = p
    /\ result' = IsRealRoot(fs, cwd, p)
    /\ probes' = {EmptyToDot(p)}
    /\ seen' = <<fs>>
    /\ UNCHANGED <<sc, fs, cwd, applications, stack, visited, internal>>

\* the caller applies real_parent to the path real_parent returned
Ascend ==
    /\ phase = "done"
    /\ op = "real_parent"
    /\ result.tag = "Ok"
    /\ applications < MaxAscents
    /\ phase' = "running"
    /\ input' = result.path
    /\ applications' = applications + 1
    /\ stack' = <<Frame("parent", "start", result.path, << >>)>>
    /\ visited' = {}
    /\ result' = NoResult
    /\ internal' = << >>
    /\ probes' = {}
    /\ seen' = <<fs>>
    /\ UNCHANGED <<sc, fs, cwd, op, start>>

\* the caller applies real_clean to the path real_clean returned
Reclean ==
    /\ phase = "done"
    /\ op = "real_clean"
    /\ result.tag = "Ok"
    /\ applications = 0
    /\ phase' = "running"
    /\ input' = result.path
    /\ applications' = 1
    /\ stack' = <<JoinInit(<< >>, result.path)>>
    /\ visited' = {}
    /\ result' = NoResult
    /\ internal' = << >>
    /\ probes' = {}
    /\ seen' = <<fs>>
    /\ UNCHANGED <<sc, fs, cwd, op, start>>

\* ---------------------------------------------------------------- parent
AtParent(pc) == Running /\ Top.fn = "parent" /\ Top.pc = pc

\* the light clean of parent's argument, via components()
LightClean == Components(Top.path)

\* parent of the empty path
ParentEmpty ==
    /\ AtParent("start")
    /\ Top.path = << >>
    /\ Return(<<DOTDOT>>)
    /\ UNCHANGED <<sc, fs, cwd, op, input, start, applications, visited, probes, seen>>

\* symlink_metadata fails: Error::IO with the path probed
ParentProbeFail ==
    /\ AtParent("start")
    /\ Top.path # << >>
    /\ ~SymlinkMetadata(fs, cwd, LightClean).ok
    /\ Fail(IOError(LightClean, SymlinkMetadata(fs, cwd, LightClean).err))
    /\ probes' = Probe(probes, LightClean)
    /\ UNCHANGED <<sc, fs, cwd, op, input, start, applications, visited, seen>>

ProbedAs(kind) ==
    /\ AtParent("start")
    /\ Top.path # << >>
    /\ SymlinkMetadata(fs, cwd, LightClean).ok
    /\ SymlinkMetadata(fs, cwd, LightClean).kind = kind

\* symlink_parent on a path already in symlinks_visited
SymlinkParentCycle ==
    /\ ProbedAs("symlink")
    /\ AlreadyVisited(visited, LightClean)
    /\ Fail(CycleError(LightClean))
    /\ probes' = Probe(probes, LightClean)
    /\ UNCHANGED <<sc, fs, cwd, op, input, start, applications, visited, seen>>

\* symlink_parent on a new path: insert it, go on to read the link
SymlinkParentVisit ==
    /\ ProbedAs("symlink")
    /\ ~AlreadyVisited(visited, LightClean)
    /\ visited' = MarkVisited(visited, LightClean)
    /\ stack' = Append(Front(stack), Frame("parent", "readlink", LightClean, << >>))
    /\ probes' = Probe(probes, LightClean)
    /\ UNCHANGED <<sc, fs, cwd, phase, op, input, start, applications, result, internal, seen>>

\* symlink_parent: read_link, then join(symlink_dir, target)
SymlinkParentReadLink ==
    /\ AtParent("readlink")
    /\ LET l == ReadLinkOf(fs, cwd, Top.path)
       IN  IF ~l.ok
           THEN Fail(IOError(Top.path, l.err))
           ELSE IF ParentUnwrapPanics(Top.path)
           THEN Fail(Panicked(Top.path, "unwrap"))
           ELSE /\ stack' = Append(Front(stack), Frame("parent", "joining", Top.path, << >>))
                            \o <<JoinInit(SymlinkDir(Top.path), l.target)>>
                /\ UNCHANGED <<phase, result, internal>>
    /\ probes' = Probe(probes, Top.path)
    /\ UNCHANGED <<sc, fs, cwd, op, input, start, applications, visited, seen>>

ParentOfDir ==
    /\ ProbedAs("dir")
    /\ IF DirParentPanics(LightClean)
       THEN Fail(Panicked(LightClean, "unwrap"))
       ELSE Return(DirParent(LightClean))
    /\ probes' = Probe(probes, LightClean)
    /\ UNCHANGED <<sc, fs, cwd, op, input, start, applications, visited, seen>>

ParentOfFile ==
    /\ ProbedAs("file")
    /\ IF ParentUnwrapPanics(LightClean)
       THEN Fail(Panicked(LightClean, "unwrap"))
       ELSE Return(FileParent(LightClean))
    /\ probes' = Probe(probes, LightClean)
    /\ UNCHANGED <<sc, fs, cwd, op, input, start, applications, visited, seen>>

\* ---------------------------------------------------------------- join
AtJoin == Running /\ Top.fn = "join" /\ Top.pc = "loop"

\* CurDir => ()
JoinCurDir ==
    /\ AtJoin
    /\ Top.rest # << >>
    /\ Head(Top.rest) = DOT
    /\ stack' = Append(Front(stack), Frame("join", "loop", Top.path, Tail(Top.rest)))
    /\ UNCHANGED <<sc, fs, cwd, phase, op, input, start, applications, visited, result,
                   internal, probes, seen>>

\* Normal(_) => resolving.push(component);
\* Prefix(_) | RootDir => panic!("impossible absolute component ...")
JoinNormal ==
    /\ AtJoin
    /\ Top.rest # << >>
    /\ Head(Top.rest) \notin {DOT, DOTDOT}
    /\ IF Head(Top.rest) = ROOT
       THEN Fail(Panicked(Top.path, "impossible absolute component in relative part of path"))
       ELSE /\ stack' = Append(Front(stack),
                               Frame("join", "loop", Append(Top.path, Head(Top.rest)),
                                     Tail(Top.rest)))
            /\ UNCHANGED <<phase, result, internal>>
    /\ UNCHANGED <<sc, fs, cwd, op, input, start, applications, visited, probes, seen>>

\* as JoinParentDir, `..` folded lexically
JoinParentDirLexical ==
    /\ AtJoin
    /\ Top.rest # << >>
    /\ Head(Top.rest) = DOTDOT
    /\ stack' = Append(Front(stack),
                       Frame("join", "loop",
                             IF HasFileName(Top.path) THEN PathParent(Top.path)
                             ELSE JoinDotDot(Top.path),
                             Tail(Top.rest)))
    /\ UNCHANGED <<sc, fs, cwd, phase, op, input, start, applications, visited, result,
                   internal, probes, seen>>

\* ParentDir => self.parent(resolving)
JoinParentDir ==
    /\ AtJoin
    /\ Top.rest # << >>
    /\ Head(Top.rest) = DOTDOT
    /\ stack' = Append(Front(stack), Frame("join", "await", Top.path, Tail(Top.rest)))
                \o <<Frame("parent", "start", Top.path, << >>)>>
    /\ UNCHANGED <<sc, fs, cwd, phase, op, input, start, applications, visited, result,
                   internal, probes, seen>>

\* Ok(resolving): to symlink_parent, which asks for the parent of the
\* resolved target, or to clean's caller
JoinReturn ==
    /\ AtJoin
    /\ Top.rest = << >>
    /\ IF Len(stack) = 1
       THEN /\ stack' = << >>
            /\ phase' = "done"
            /\ internal' = Top.path
            /\ result' = OkResult(EmptyToDot(Top.path))
       ELSE /\ stack' = SubSeq(stack, 1, Len(stack) - 2)
                        \o <<Frame("parent", "recursing", stack[Len(stack) - 1].path, << >>),
                             Frame("parent", "start", Top.path, << >>)>>
            /\ UNCHANGED <<phase, result, internal>>
    /\ UNCHANGED <<sc, fs, cwd, op, input, start, applications, visited, probes, seen>>

\* ---------------------------------------------------------------- other processes
\* another process rewrites an entry between two probes of the call
Interfere ==
    /\ Running
    /\ Len(seen) <= MaxChanges
    /\ \E ch \in Scenarios[sc].changes :
          \E n \in DOMAIN ch :
              /\ n \in DOMAIN fs
              /\ fs[n] # ch[n]
              /\ fs' = [fs EXCEPT ![n] = ch[n]]
    /\ seen' = Append(seen, fs')
    /\ UNCHANGED <<sc, cwd, phase, op, input, start, applications, stack, visited, result,
                   internal, probes>>

Next ==
    \/ \E p \in Scenarios[sc].inputs : RealParentCall(p)
    \/ \E p \in Scenarios[sc].inputs : RealCleanCall(p)
    \/ \E p \in Scenarios[sc].inputs : IsRealRootCall(p)
    \/ Ascend
    \/ Reclean
    \/ ParentEmpty
    \/ ParentProbeFail
    \/ SymlinkParentCycle
    \/ SymlinkParentVisit
    \/ SymlinkParentReadLink
    \/ ParentOfDir
    \/ ParentOfFile
    \/ JoinCurDir
    \/ JoinNormal
    \/ JoinParentDir
    \/ JoinReturn

Spec == Init /\ [][Next]_vars

\* the calls, and another process at work on the filesystem
NextRace ==
    \/ Next
    \/ Interfere

SpecRace == Init /\ [][NextRace]_vars

\* ---------------------------------------------------------------- properties
Done == phase = "done"
Canon(p) == Canonicalize(fs, cwd, p)

\* the canonical path one level up, the root staying the root
PhysicalParent(c) == IF Len(c) = 1 THEN c ELSE Front(c)

\* C1: when real_parent succeeds on a path the filesystem resolves, the
\* result fully resolved is the fully resolved path less its last component
C1_PhysicalParent ==
    (Done /\ op = "real_parent" /\ result.tag = "Ok" /\ Canon(input).ok)
        => /\ Canon(result.path).ok
           /\ Canon(result.path).path = PhysicalParent(Canon(input).path)

\* a symlink chain was followed, through `..` in a target, to another directory
C1_Witness ==
    /\ Done /\ op = "real_parent" /\ result.tag = "Ok" /\ Canon(input).ok
    /\ Cardinality(visited) >= 2
    /\ result.path # EmptyToDot(PathParent(Components(input)))

\* C2: for an entry that is not a symlink, named by a path ending in a
\* normal name, real_parent is the syntactic parent, `.` if that is empty
C2_SyntacticParent ==
    (/\ Done /\ op = "real_parent" /\ input # << >> /\ IsNormal(Last(input))
     /\ SymlinkMetadata(fs, cwd, input).ok
     /\ SymlinkMetadata(fs, cwd, input).kind # "symlink")
        => result = OkResult(EmptyToDot(Front(Components(input))))

\* a plain file reached through a symlinked directory: _B/b1 gives _B
C2_Witness ==
    /\ Done /\ op = "real_parent" /\ input = <<"_B", "b1">>
    /\ SymlinkMetadata(fs, cwd, input).kind = "file"
    /\ result = OkResult(<<"_B">>)

\* C3: arriving at a symlink path already dereferenced in this call ends
\* the call with Cycle naming that path
C3_RevisitIsCycle ==
    [][(ProbedAs("symlink") /\ LightClean \in visited)
          => (phase' = "done" /\ result' = CycleError(LightClean))]_vars

\* the loop through four symlinks in three directories
C3_Witness ==
    /\ Done /\ op = "real_parent" /\ input = <<"A", "B", "_b1">>
    /\ Cardinality(visited) = 4
    /\ result = CycleError(<<"A", "B", "_b1">>)

\* the symlink a pending symlink_parent is dereferencing
DerefNode(f) == Resolve(fs, cwd, f.path, FALSE).node
Dereferencing(i) == stack[i].fn = "parent" /\ stack[i].pc # "start"

\* the filesystem cannot resolve p: its symlinks lead back to themselves
OnLoop(p) == Resolve(fs, cwd, p, TRUE).err = "ELOOP"

\* C4: a symlink loop is caught on re-entry: a symlink that lies on a loop
\* is not entered again while its own dereference is still pending
C4_LoopCaughtOnReentry ==
    \A i, j \in 1..Len(stack) :
        (/\ i < j /\ Dereferencing(i) /\ Dereferencing(j)
         /\ DerefNode(stack[i]) = DerefNode(stack[j]))
            => ~OnLoop(stack[i].path)

\* some symlink of the filesystem resolves back to itself
HasSymlinkLoop ==
    \E n \in DOMAIN fs :
        /\ fs[n].kind = "symlink"
        /\ Resolve(fs, << >>, <<ROOT>> \o n, TRUE).err = "ELOOP"

\* C5: Cycle is reported only on a filesystem that has a symlink loop
C5_CycleMeansLoop == (Done /\ result.tag = "Cycle") => HasSymlinkLoop

\* C6: real_parent of a missing entry, or through a symlink that leads to
\* a missing entry, is an IO error carrying the path whose probe failed
C6_MissingIsIO ==
    (Done /\ op = "real_parent" /\ input # << >>)
        => /\ SymlinkMetadata(fs, cwd, Components(input)).err = "ENOENT"
                => result = IOError(Components(input), "ENOENT")
           /\ (\E p \in visited : Resolve(fs, cwd, p, TRUE).err = "ENOENT")
                => /\ result.tag = "IO"
                   /\ ~SymlinkMetadata(fs, cwd, result.path).ok
                   /\ result.err = SymlinkMetadata(fs, cwd, result.path).err

\* C7: the parent of ``, `.` is `..`; the parent of a directory path that
\* ends in `..` is that path with one more `..`
C7_DotDotAppended ==
    (Done /\ op = "real_parent")
        => /\ input \in {<< >>, <<DOT>>} => result = OkResult(<<DOTDOT>>)
           /\ (input # << >> /\ Last(input) = DOTDOT /\ Canon(input).ok)
                => result = OkResult(Components(input) \o <<DOTDOT>>)

\* more `..` than the current directory is deep, and `..` after a symlink
C7_Witness ==
    /\ Done /\ op = "real_parent" /\ result.tag = "Ok"
    /\ \/ Len(input) > Len(cwd) /\ \A i \in 1..Len(input) : input[i] = DOTDOT
       \/ input = <<"_B", DOTDOT>>
    /\ Len(result.path) = Len(input) + 1

\* C8: real_parent and real_clean of the root are the root
C8_RootFixpoint ==
    (Done /\ op \in {"real_parent", "real_clean"} /\ input = <<ROOT>>)
        => result = OkResult(<<ROOT>>)

C8_Witness ==
    /\ Done /\ op = "real_parent" /\ input = <<ROOT>> /\ applications >= 1
    /\ result.path = <<ROOT>>

\* how many levels below the root the start of the ascent resolves
StartPath == IF start = << >> THEN <<DOT>> ELSE start
StartDepth == Len(Canon(StartPath).path) - 1

\* C9: ascending from an existing path d levels below the root never
\* fails, and the k-th iterate is the root exactly when k >= d
C9_AscentReachesRoot ==
    (Done /\ op = "real_parent" /\ Canon(StartPath).ok)
        => /\ result.tag = "Ok"
           /\ IsRealRoot(fs, cwd, start).tag = (IF StartDepth = 0 THEN "True" ELSE "False")
           /\ IsRealRoot(fs, cwd, result.path).tag
                = (IF applications + 1 >= StartDepth THEN "True" ELSE "False")

\* C10: when real_clean succeeds on a path the filesystem resolves, the
\* result denotes the same entry
C10_CleanSameEntry ==
    (Done /\ op = "real_clean" /\ result.tag = "Ok" /\ Canon(input).ok)
        => Canon(result.path) = Canon(input)

\* `..` after a symlink to a directory: A/B/C/_B/.. is A
C10_Witness ==
    /\ Done /\ op = "real_clean" /\ input = <<"A", "B", "C", "_B", DOTDOT>>
    /\ Canon(input).ok
    /\ result = OkResult(<<"A">>)

\* C11: real_clean applied to a path real_clean returned succeeds and
\* returns that path
C11_CleanIdempotent ==
    (Done /\ op = "real_clean" /\ applications = 1) => result = OkResult(input)

\* the first clean went through a symlink and `..`, or above the current
\* directory
C11_Witness ==
    /\ Done /\ op = "real_clean" /\ applications = 1
    /\ start \in {<<"A", "B", "C", "_B", DOTDOT>>, <<DOTDOT, "C", DOTDOT, DOTDOT, "B", DOTDOT>>,
                  <<"A", "B", "=C", DOTDOT>>}
    /\ result = OkResult(input)
    /\ input # start

\* C12: real_parent and real_clean never return the empty path: an empty
\* internal result (the parent of x1 or _x1, the clean of `` or `.`) reaches
\* the caller as `.`, every other internal result as it is
C12_NeverEmpty ==
    (Done /\ op \in {"real_parent", "real_clean"} /\ result.tag = "Ok")
        => /\ result.path # << >>
           /\ result.path = (IF internal = << >> THEN <<DOT>> ELSE internal)
           /\ (/\ op = "real_parent" /\ input \in {<<"x1">>, <<"_x1">>}
               /\ cwd \o input \in DOMAIN fs) => internal = << >>
           /\ (op = "real_clean" /\ input \in {<< >>, <<DOT>>}) => internal = << >>

\* the parent of the symlink _x1, found through its target x1, is empty
C12_Witness ==
    /\ Done /\ op = "real_parent" /\ input = <<"_x1">>
    /\ Cardinality(visited) = 1
    /\ internal = << >>
    /\ result = OkResult(<<DOT>>)

\* the entry the filesystem resolves p to, the empty path read as `.`
Resolved(p) == Resolve(fs, cwd, IF p = << >> THEN <<DOT>> ELSE p, TRUE)

\* C13: is_real_root is true exactly when the path, every symlink and `..`
\* resolved by the filesystem, is the root directory; false when it is an
\* entry below the root; an IO error when the path does not resolve
C13_RootExactly ==
    (Done /\ op = "is_real_root")
        => /\ result.tag = "True" <=> (Resolved(input).ok /\ Resolved(input).node = << >>)
           /\ result.tag = "False" <=> (Resolved(input).ok /\ Resolved(input).node # << >>)
           /\ result.tag = "IO" <=> ~Resolved(input).ok
           /\ input = <<ROOT>> => result.tag = "True"
           /\ (cwd = << >> /\ input \in {<< >>, <<DOT>>, <<DOTDOT>>}) => result.tag = "True"
           /\ (cwd # << >> /\ input \in {<< >>, <<DOT>>}) => result.tag = "False"

\* a chain of two symlinks that leads to the root: A/_r1a -> ../_r1 -> /
C13_Witness ==
    /\ Done /\ op = "is_real_root" /\ input = <<"A", "_r1a">>
    /\ fs[cwd \o <<"_r1">>].target = <<ROOT>>
    /\ result.tag = "True"

\* the target of the symlink p names, << >> when p names no symlink
TargetOf(p) == ReadLinkOf(fs, cwd, Components(p)).target
IsAbsolute(p) == p # << >> /\ Head(p) = ROOT

\* C14: real_parent of a symlink whose target is absolute is the parent of
\* that target, an absolute path, wherever the symlink lies and whether
\* the input was relative or absolute; the parent of a target `/` is `/`
C14_AbsoluteTarget ==
    (/\ Done /\ op = "real_parent" /\ IsAbsolute(TargetOf(input))
     /\ SymlinkMetadata(fs, cwd, TargetOf(input)).ok
     /\ SymlinkMetadata(fs, cwd, TargetOf(input)).kind # "symlink")
        => /\ result.tag = "Ok"
           /\ IsAbsolute(result.path)
           /\ result.path = (IF HasFileName(TargetOf(input))
                               THEN PathParent(Components(TargetOf(input)))
                               ELSE <<ROOT>>)

\* the relative path A/B/=C, a symlink to <farm>/A/C, gives <farm>/A
C14_Witness ==
    /\ Done /\ op = "real_parent" /\ input = <<"A", "B", "=C">>
    /\ TargetOf(input) = AbsT(<<"A", "C">>)
    /\ result = OkResult(AbsT(<<"A">>))

\* a pending symlink_parent that has resolved its target and asked for the
\* parent of the resolved target
Recursing(i) ==
    /\ i < Len(stack)
    /\ stack[i].fn = "parent" /\ stack[i].pc = "recursing"
    /\ stack[i + 1].fn = "parent"

NoDotDot(t) == \A k \in 1..Len(t) : t[k] # DOTDOT
Normals(t) == SelectSeq(t, LAMBDA c : c # DOT)

\* the parent of the entry q, a path that names no symlink
FinalParent(q) ==
    IF q = << >> THEN <<DOTDOT>>
    ELSE IF SymlinkMetadata(fs, cwd, q).kind = "dir" THEN DirParent(q)
    ELSE FileParent(q)

\* q is where the chain of symlinks from the input ends
FinalEntry(q) ==
    /\ q # << >> => /\ q \in probes
                   /\ SymlinkMetadata(fs, cwd, q).ok
                   /\ SymlinkMetadata(fs, cwd, q).kind # "symlink"
    /\ Resolved(q) = Resolved(Components(input))

\* C15: a relative symlink target is resolved against the directory that
\* contains the symlink: the resolved target names the entry the filesystem
\* finds for <directory of the symlink>/<target>; a target of names only is
\* appended to that directory, and `../d` in a plain directory a/b gives a/d.
\* Through a chain of symlinks, the parent of the first is the parent of
\* the entry the chain ends at: A/B/__c -> ../../_c -> A/B/C/c1 gives A/B/C
C15_RelativeTarget ==
    /\ (/\ Done /\ op = "real_parent" /\ result.tag = "Ok" /\ fs = seen[1]
        /\ SymlinkMetadata(fs, cwd, Components(input)).kind = "symlink")
          => /\ \E q \in probes \cup {<< >>} : FinalEntry(q) /\ internal = FinalParent(q)
             /\ (input = <<"A", "B", "__c">> /\ TargetOf(<<"_c">>) = <<"A", "B", "C", "c1">>)
                   => result = OkResult(<<"A", "B", "C">>)
    /\ \A i \in 1..Len(stack) :
        (Recursing(i) /\ fs = seen[1] /\ ~IsAbsolute(TargetOf(stack[i].path)))
            => LET s == stack[i].path
                   t == TargetOf(s)
                   q == stack[i + 1].path
                   dir == PathParent(s)
               IN  /\ Resolved(q) = Resolved(dir \o t)
                   /\ NoDotDot(t) => q = dir \o Normals(t)
                   /\ (/\ Head(t) = DOTDOT /\ NoDotDot(Tail(t)) /\ HasFileName(dir)
                       /\ SymlinkMetadata(fs, cwd, dir).kind = "dir")
                        => q = PathParent(dir) \o Normals(Tail(t))

\* A/B/__c -> ../../_c resolved to _c in the directory above A, and _c in
\* turn to A/B/C/c1
C15_Witness ==
    /\ Len(stack) = 3 /\ Recursing(1) /\ Recursing(2)
    /\ stack[1].path = <<"A", "B", "__c">>
    /\ TargetOf(stack[1].path) = <<DOTDOT, DOTDOT, "_c">>
    /\ stack[2].path = <<"_c">>
    /\ stack[3].path = <<"A", "B", "C", "c1">>

Names(p) == {p[k] : k \in 1..Len(p)}

\* C16: resolution is minimal: real_parent of A/B/_b1, a symlink to its
\* sibling file b1, is A/B by probes of A/B/_b1 and A/B/b1 alone, whatever
\* else the filesystem holds; a call that dereferences no symlink probes
\* only its input, light-cleaned; and every probed path is made of
\* components of the input and of the targets of the symlinks dereferenced
C16_MinimalProbes ==
    (Done /\ op = "real_parent" /\ applications = 0)
        => /\ (/\ input = <<"A", "B", "_b1">> /\ TargetOf(input) = <<"b1">>
               /\ SymlinkMetadata(fs, cwd, <<"A", "B", "b1">>).kind = "file")
                => /\ result = OkResult(<<"A", "B">>)
                   /\ probes = {<<"A", "B", "_b1">>, <<"A", "B", "b1">>}
           /\ visited = {} => probes \subseteq {Components(input)}
           /\ input # << >> => Components(input) \in probes
           /\ \A q \in probes :
                 Names(q) \subseteq Names(input) \cup UNION {Names(TargetOf(v)) : v \in visited}

\* A/B/_b1 resolved in the farm that holds nothing but A/B, b1 and _b1
C16_Witness ==
    /\ Done /\ op = "real_parent" /\ input = <<"A", "B", "_b1">>
    /\ DOMAIN fs = DOMAIN FarmSibling
    /\ result = OkResult(<<"A", "B">>)
    /\ probes = {<<"A", "B", "_b1">>, <<"A", "B", "b1">>}

\* n times `..`
Ups(n) == [k \in 1..n |-> DOTDOT]

\* a directory path without a final name that is not `.`: the root, or a
\* path that ends in `..`
NamelessDir(p) ==
    /\ p # << >> /\ p # <<DOT>> /\ ~HasFileName(p)
    /\ SymlinkMetadata(fs, cwd, p).ok
    /\ SymlinkMetadata(fs, cwd, p).kind = "dir"

\* C17 as stated: the parent of the root is the root with `..` appended,
\* as for a path that ends in `..`
C17_RootAppendsDotDot ==
    (Done /\ op = "real_parent" /\ NamelessDir(Components(input)))
        => result = OkResult(Components(input) \o <<DOTDOT>>)

\* C17: the parent of the root is the root itself, nothing appended; `..`
\* is appended to a path that ends in `..`; ascent by `..` alone keeps
\* appending `..`, past the root too, and is never an error
C17_RootStaysAscentAppends ==
    (Done /\ op = "real_parent")
        => /\ (NamelessDir(Components(input)) /\ Last(Components(input)) = ROOT)
                => result = OkResult(Components(input))
           /\ (NamelessDir(Components(input)) /\ Last(Components(input)) = DOTDOT)
                => result = OkResult(Components(input) \o <<DOTDOT>>)
           /\ \A m \in 0..3 : start = Ups(m) => result = OkResult(Ups(m + applications + 1))

\* the ascent from <farm> by absolute paths has reached the root and stays
C17_Witness ==
    /\ Done /\ op = "real_parent" /\ start = AbsT(<< >>) /\ applications >= 2
    /\ input = <<ROOT>>
    /\ result = OkResult(<<ROOT>>)

\* a run of `..`, then normal names only
UpsThenNames(p) ==
    \E k \in 0..Len(p) :
        /\ \A i \in 1..k : p[i] = DOTDOT
        /\ \A i \in (k + 1)..Len(p) : IsNormal(p[i])

\* `.`, or `..`s then names, or a root then names
CleanForm(p) ==
    \/ p = <<DOT>>
    \/ p # << >> /\ UpsThenNames(p)
    \/ IsAbsolute(p) /\ \A i \in 2..Len(p) : IsNormal(p[i])

\* C18: a successful real_clean result is in clean form: no `.` component,
\* no `..` after a name or after the root, whatever the input and the
\* symlink targets contain
C18_CleanForm ==
    (Done /\ op = "real_clean" /\ result.tag = "Ok")
        => /\ CleanForm(result.path)
           /\ (input = <<DOT, "A", "B", "b1">> /\ Canon(input).ok)
                => result.path = <<"A", "B", "b1">>
           /\ (input = <<"A", DOTDOT, "A", "B", "C">> /\ Canon(input).ok)
                => result.path = <<"A", "B", "C">>
           /\ (/\ input = <<DOTDOT, "C", DOTDOT, DOTDOT, "B", DOTDOT>>
               /\ cwd = T(<<"A", "B", "C">>))
                => result.path = <<DOTDOT, DOTDOT>>

\* `..` through a symlink whose target holds `.` and `..`:
\* A/B/C/_B -> ./.., and A/B/C/_B/../B/C/.. is A/B
C18_Witness ==
    /\ Done /\ op = "real_clean"
    /\ input = <<"A", "B", "C", "_B", DOTDOT, "B", "C", DOTDOT>>
    /\ TargetOf(<<"A", "B", "C", "_B">>) = <<DOT, DOTDOT>>
    /\ result = OkResult(<<"A", "B">>)

\* some symlink of the filesystem f resolves back to itself
LoopIn(f) ==
    \E n \in DOMAIN f :
        /\ f[n].kind = "symlink"
        /\ Resolve(f, << >>, <<ROOT>> \o n, TRUE).err = "ELOOP"

\* the result is a right answer on the filesystem f
CorrectFor(f) ==
    LET in == Canonicalize(f, cwd, IF input = << >> THEN <<DOT>> ELSE input)
        out == Canonicalize(f, cwd, result.path)
    IN  in.ok => /\ out.ok
                 /\ out.path = (IF op = "real_parent" THEN PhysicalParent(in.path)
                                 ELSE in.path)

\* C19: when another process changes the filesystem during a real_parent
\* or real_clean call, the call ends with a path that is right for one of
\* the filesystems there were during the call, or with an IO error; with
\* Cycle only if one of them had a symlink loop; never with a panic
C19_RaceSafe ==
    (Done /\ op \in {"real_parent", "real_clean"} /\ Len(seen) > 1)
        => /\ result.tag \in {"Ok", "IO", "Cycle"}
           /\ result.tag = "Ok" => \E k \in 1..Len(seen) : CorrectFor(seen[k])
           /\ result.tag = "Cycle" => \E k \in 1..Len(seen) : LoopIn(seen[k])

\* C20: no call panics: the components join walks hold no root (the root
\* is split off before the walk), a path classified as a symlink or a
\* plain file ends in a normal name, and so every Path::parent that is
\* unwrapped is Some
C20_NoPanic ==
    /\ result.tag # "Panic"
    /\ AtJoin => \A k \in 1..Len(Top.rest) : Top.rest[k] # ROOT
    /\ (ProbedAs("symlink") \/ ProbedAs("file")) => HasFileName(LightClean)
    /\ AtParent("readlink") => HasParent(Top.path)
    /\ (ProbedAs("dir") /\ HasFileName(LightClean)) => HasParent(LightClean)

\* join walks an absolute symlink target: the root is `resolving`, the
\* names are still to come
C20_Witness ==
    /\ AtJoin /\ Len(stack) = 2
    /\ stack[1].pc = "joining"
    /\ IsAbsolute(TargetOf(stack[1].path))
    /\ Top.path = <<ROOT>>
    /\ Top.rest = Tail(TargetOf(stack[1].path))
    /\ Top.rest # << >>
====
